---- MODULE Spec2Model ----
(***************************************************************************)
(* State-sequence segmentation of the Unit Overview page:                  *)
(* create_efficiency_metrics, src/pages/1_📊_Unit_Overview.py:209-482, its *)
(* two calls from main, and process_sequence_data of the System States     *)
(* page, src/pages/6_⏱️_System_States.py:24-56.                            *)
(*                                                                         *)
(* Timestamps are whole minutes since midnight of day 0, a date is the day *)
(* number (timestamp \div 1440), a duration is a number of minutes.  The   *)
(* gaps between events are even, so the median of two of them is whole.    *)
(* A table is a sequence of rows; the field idx of a row is its pandas     *)
(* index label, which the split parts of one event share.                  *)
(***************************************************************************)
EXTENDS Integers, Sequences, FiniteSets, TLC

VARIABLES
    sequences_df,          \* the events table handed in: <<[timestamp, code]>>
    show_manufacturing,    \* the category toggle
    time_handling,         \* the policy
    pc,                    \* position in create_efficiency_metrics
    analysis_df,           \* merged table with duration, date, State Type
    filtered_df,           \* the table the policies work on; the result at "done"
    pos,                   \* number of rows the split loop has consumed
    split_states,          \* rows the split loop has emitted
    current_day_duration,  \* accumulator of the split loop
    current_date,          \* date the split loop is filling
    prev_state_type,       \* last State Type the split loop emitted
    calls,                 \* number of the call of create_efficiency_metrics
    first_result,          \* what the first call returned, once a second is made
    states_page            \* the System States page:
                           \* [pc, sequences_df, processed_df, result]

vars == <<sequences_df, show_manufacturing, time_handling, pc, analysis_df,
          filtered_df, pos, split_states, current_day_duration, current_date,
          prev_state_type, calls, first_result, states_page>>

-----------------------------------------------------------------------------
(* Bounds of the input space *)

\* Longest event stream handed to the page.
MaxEvents == 3

\* First timestamp of a stream (12:00 of day 0) and the gaps between events.
StartTimes == {720}

Gaps == {120, 1000, 2000}

\* 23:00 of day 0, 02:00 and 04:00 of day 1
ScenarioTimes == <<1380, 1560, 1680>>

Policies == {"Hide", "Clean Split", "Raw Split", "Show All"}

-----------------------------------------------------------------------------
(* Program constants *)

DayMinutes == 1440

MaintenanceCap == 480

NaN == "NaN"

None == "None"

\* A cell of the code column is a whole number.  TextCode stands for a cell
\* that holds text ('START', 'WAIT', ...); NA is the NaN (or NaT) of a
\* numeric (or datetime) column.
TextCode == 0

NA == 0 - 1

\* The state mapping table (State ID -> State Type).  Code 9 has no entry;
\* code 7 has a State Type that the category dictionary does not know.
sequence_states_df ==
    [c \in {1, 2, 3, 4, 5, 6, 7} |->
        CASE c = 1 -> "Water Production"
          [] c = 2 -> "Cleaning & Disinfection"
          [] c = 3 -> "Testing"
          [] c = 4 -> "System Management"
          [] c = 5 -> "Manufacturing"
          [] c = 6 -> "In-Field Self Test"
          [] c = 7 -> "Standby"]

\* Codes the events of a stream carry.
Codes == {1, 2, 4, 5, 7, 9}

state_categories ==
    [t \in {"Water Production", "Cleaning & Disinfection", "Testing",
            "System Management", "Manufacturing", "In-Field Self Test"} |->
        CASE t = "Water Production"        -> "Production"
          [] t = "Cleaning & Disinfection" -> "Maintenance"
          [] t = "Testing"                 -> "Testing"
          [] t = "System Management"       -> "System"
          [] t = "Manufacturing"           -> "Manufacturing"
          [] t = "In-Field Self Test"      -> "Testing"]

Categories == {"Production", "Maintenance", "Testing", "System", "Manufacturing"}

-----------------------------------------------------------------------------
(* Helpers on numbers and sequences *)

Abs(x) == IF x < 0 THEN -x ELSE x

Min(a, b) == IF a <= b THEN a ELSE b

RECURSIVE SumDuration(_)
SumDuration(rows) ==
    IF rows = <<>> THEN 0
    ELSE Head(rows).duration + SumDuration(Tail(rows))

\* Stable insertion sort of numbers (Series.median sorts the values).
RECURSIVE InsertInt(_, _)
InsertInt(x, s) ==
    IF s = <<>> THEN <<x>>
    ELSE IF Head(s) <= x THEN <<Head(s)>> \o InsertInt(x, Tail(s))
    ELSE <<x>> \o s

RECURSIVE SortInts(_)
SortInts(s) ==
    IF s = <<>> THEN <<>>
    ELSE InsertInt(s[Len(s)], SortInts(SubSeq(s, 1, Len(s) - 1)))

\* Order of rows under sort_values(by)
RowLeq(by, a, b) ==
    IF by = "timestamp" THEN a.timestamp <= b.timestamp
    ELSE a.date < b.date \/ (a.date = b.date /\ a.timestamp <= b.timestamp)

\* Stable insertion sort of rows: rows with equal keys keep their order.
RECURSIVE InsertRow(_, _, _)
InsertRow(x, s, by) ==
    IF s = <<>> THEN <<x>>
    ELSE IF RowLeq(by, Head(s), x) THEN <<Head(s)>> \o InsertRow(x, Tail(s), by)
    ELSE <<x>> \o s

RECURSIVE SortRows(_, _)
SortRows(s, by) ==
    IF s = <<>> THEN <<>>
    ELSE InsertRow(s[Len(s)], SortRows(SubSeq(s, 1, Len(s) - 1), by), by)

\* Variant: of two middle values the lower one is taken.
Median_LowerMiddle(s) ==
    LET srt == SortInts(s)
        n   == Len(s)
    IN  srt[(n + 1) \div 2]

\* Series.median(): middle value, or the mean of the two middle values.
Median(s) ==
    LET srt == SortInts(s)
        n   == Len(s)
    IN  IF n % 2 = 1 THEN srt[(n + 1) \div 2]
        ELSE (srt[n \div 2] + srt[n \div 2 + 1]) \div 2

-----------------------------------------------------------------------------
(* Lines 212-244: merge, durations, date, category, category filter *)

DateOf(ts) == ts \div DayMinutes

\* Line 213: pd.to_numeric(..., errors='coerce') turns text into NaN
ToNumeric(c) == IF c = TextCode THEN NA ELSE c

CoerceCodes(ev) == [k \in 1..Len(ev) |-> [ev[k] EXCEPT !.code = ToNumeric(@)]]

\* left merge on code == State ID, then .map(state_categories)
StateType(code) ==
    IF code \in DOMAIN sequence_states_df
    THEN IF sequence_states_df[code] \in DOMAIN state_categories
         THEN state_categories[sequence_states_df[code]]
         ELSE NaN
    ELSE NaN

\* timestamp.diff(-1).abs() / 60 for all rows but the last
RawDiffs(ev) ==
    [k \in 1..(Len(ev) - 1) |-> Abs(ev[k].timestamp - ev[k + 1].timestamp)]

\* ... and fillna(median) for the last row
Durations(ev) ==
    [k \in 1..Len(ev) |->
        IF k < Len(ev) THEN RawDiffs(ev)[k] ELSE Median(RawDiffs(ev))]

MakeAnalysis(ev) ==
    [k \in 1..Len(ev) |->
        [idx       |-> k,
         timestamp |-> ev[k].timestamp,
         code      |-> ev[k].code,
         cat       |-> StateType(ev[k].code),
         duration  |-> Durations(ev)[k],
         date      |-> DateOf(ev[k].timestamp)]]

KeepRow(r, show) == show \/ r.cat \notin {"Manufacturing", "Testing"}

CategoryFilter(df, show) ==
    LET Keep(r) == KeepRow(r, show) IN SelectSeq(df, Keep)

-----------------------------------------------------------------------------
(* Lines 249-254: Hide *)

DatesOf(df) == {df[k].date : k \in 1..Len(df)}

RowsOfDate(df, d) == LET On(r) == r.date = d IN SelectSeq(df, On)

DailyTotal(df, d) == SumDuration(RowsOfDate(df, d))

\* Variant: a day is valid when one of its rows is at most a day long.
HideValidDays_RowWise(df) ==
    {d \in DatesOf(df) : \E k \in 1..Len(df) : df[k].date = d /\ df[k].duration <= DayMinutes}

HideValidDays(df) == {d \in DatesOf(df) : DailyTotal(df, d) <= DayMinutes}

\* Variant: a day over 24 hours is cut where its running total passes 1440.
HideDays_Truncating(df) ==
    LET Before(r) == LET Upto(q) == q.date = r.date /\ q.idx <= r.idx
                     IN  SelectSeq(df, Upto)
        Valid(r)  == SumDuration(Before(r)) <= DayMinutes
    IN  SelectSeq(df, Valid)

HideDays(df) ==
    LET Valid(r) == r.date \in HideValidDays(df) IN SelectSeq(df, Valid)

-----------------------------------------------------------------------------
(* Lines 256-322: the split loop *)

SortByTimestamp(df) == SortRows(df, "timestamp")

IsDuplicate(prev, cat) == prev = cat /\ prev \in {"Maintenance", "System"}

\* Variant: the cap of 8 * 60 of line 306 is applied to every row.
RECURSIVE NextDays_CapEverywhere(_, _, _)
NextDays_CapEverywhere(st, row, policy) ==
    IF st.rem <= 0 THEN st
    ELSE
      LET d    == st.date + 1
          nd   == Min(Min(DayMinutes, st.rem), MaintenanceCap)
          emit == policy # "Clean Split" \/ ~IsDuplicate(st.prev, row.cat)
          part == [row EXCEPT !.date = d, !.duration = nd]
      IN  NextDays_CapEverywhere(
              [rem  |-> st.rem - nd,
               date |-> d,
               cdd  |-> nd,
               iters |-> st.iters + 1,
               prev |-> IF policy = "Clean Split" /\ emit THEN row.cat ELSE st.prev,
               out  |-> IF emit THEN Append(st.out, part) ELSE st.out],
              row, policy)

\* Variant: every next-day portion is emitted (no test of line 307).
RECURSIVE NextDays_NoDuplicateTest(_, _, _)
NextDays_NoDuplicateTest(st, row, policy) ==
    IF st.rem <= 0 THEN st
    ELSE
      LET d    == st.date + 1
          nd0  == Min(DayMinutes, st.rem)
          nd   == IF policy = "Clean Split" /\ row.cat \in {"Maintenance", "System"}
                  THEN Min(nd0, MaintenanceCap) ELSE nd0
          part == [row EXCEPT !.date = d, !.duration = nd]
      IN  NextDays_NoDuplicateTest([rem  |-> st.rem - nd,
                                    date |-> d,
                                    cdd  |-> nd,
                                    iters |-> st.iters + 1,
                                    prev |-> IF policy = "Clean Split" THEN row.cat ELSE st.prev,
                                    out  |-> Append(st.out, part)],
                                   row, policy)

\* Variant: a next-day portion takes all that remains (no min with 24 * 60).
RECURSIVE NextDays_Uncapped(_, _, _)
NextDays_Uncapped(st, row, policy) ==
    IF st.rem <= 0 THEN st
    ELSE
      LET d    == st.date + 1
          nd0  == st.rem
          nd   == IF policy = "Clean Split" /\ row.cat \in {"Maintenance", "System"}
                  THEN Min(nd0, MaintenanceCap) ELSE nd0
          emit == policy # "Clean Split" \/ ~IsDuplicate(st.prev, row.cat)
          part == [row EXCEPT !.date = d, !.duration = nd]
      IN  NextDays_Uncapped([rem  |-> st.rem - nd,
                             date |-> d,
                             cdd  |-> nd,
                             iters |-> st.iters + 1,
                             prev |-> IF policy = "Clean Split" /\ emit THEN row.cat ELSE st.prev,
                             out  |-> IF emit THEN Append(st.out, part) ELSE st.out],
                            row, policy)

\* Lines 295-316: the while loop.  st = [rem, date, cdd, iters, prev, out];
\* iters counts the passes through the loop body.
RECURSIVE NextDays(_, _, _)
NextDays(st, row, policy) ==
    IF st.rem <= 0 THEN st
    ELSE
      LET d    == st.date + 1
          nd0  == Min(DayMinutes, st.rem)
          nd   == IF policy = "Clean Split" /\ row.cat \in {"Maintenance", "System"}
                  THEN Min(nd0, MaintenanceCap) ELSE nd0
          emit == policy # "Clean Split" \/ ~IsDuplicate(st.prev, row.cat)
          part == [row EXCEPT !.date = d, !.duration = nd]
      IN  NextDays([rem  |-> st.rem - nd,
                    date |-> d,
                    cdd  |-> nd,
                    iters |-> st.iters + 1,
                    prev |-> IF policy = "Clean Split" /\ emit THEN row.cat ELSE st.prev,
                    out  |-> IF emit THEN Append(st.out, part) ELSE st.out],
                   row, policy)

\* Lines 267-316: one iteration, up to the day check.
\* Result: [date, cdd, prev, out, skip, iters]; skip is the `continue` of
\* line 276, iters the number of passes of the while loop.
SplitBody(row, cdd, cd, prev, policy) ==
    LET sd == row.duration
        rt == DayMinutes - cdd
    IN  IF cdd + sd <= DayMinutes
        THEN IF policy = "Clean Split" /\ IsDuplicate(prev, row.cat)
             THEN [date |-> cd, cdd |-> cdd, prev |-> prev, out |-> <<>>, skip |-> TRUE,
                   iters |-> 0]
             ELSE [date |-> cd, cdd |-> cdd + sd, prev |-> row.cat,
                   out |-> <<row>>, skip |-> FALSE, iters |-> 0]
        ELSE
          LET first_part == [row EXCEPT !.duration = rt]
              emit1 == rt > 0 /\ (policy # "Clean Split" \/ ~IsDuplicate(prev, row.cat))
              prev1 == IF rt > 0 /\ policy = "Clean Split" /\ emit1 THEN row.cat ELSE prev
              st    == NextDays([rem  |-> sd - rt,
                                 date |-> cd,
                                 cdd  |-> cdd,
                                 iters |-> 0,
                                 prev |-> prev1,
                                 out  |-> IF emit1 THEN <<first_part>> ELSE <<>>],
                                row, policy)
          IN  [date |-> st.date, cdd |-> st.cdd, prev |-> st.prev, out |-> st.out,
               skip |-> FALSE, iters |-> st.iters]

\* Variant: the day check keeps prev_state_type.
DayCheck_KeepsPrev(b, row, policy) ==
    IF ~b.skip /\ row.date # b.date
    THEN [date |-> row.date,
          cdd  |-> IF policy = "Raw Split" THEN row.duration
                   ELSE Min(row.duration, MaintenanceCap),
          prev |-> b.prev]
    ELSE [date |-> b.date, cdd |-> b.cdd, prev |-> b.prev]

\* Lines 318-322: the day check after the body.
DayCheck(b, row, policy) ==
    IF ~b.skip /\ row.date # b.date
    THEN [date |-> row.date,
          cdd  |-> IF policy = "Raw Split" THEN row.duration
                   ELSE Min(row.duration, MaintenanceCap),
          prev |-> None]
    ELSE [date |-> b.date, cdd |-> b.cdd, prev |-> b.prev]

-----------------------------------------------------------------------------
(* Lines 326-342: post-processing of Clean Split *)

\* groupby(['date', 'State Type']) leaves out the rows whose State Type is NaN
CleanDailySum(df, d) ==
    LET Counted(r) == r.date = d /\ r.cat # NaN IN SumDuration(SelectSeq(df, Counted))

CleanValidDays(df) ==
    {d \in DatesOf(df) :
        /\ \E k \in 1..Len(df) : df[k].date = d /\ df[k].cat # NaN
        /\ CleanDailySum(df, d) <= DayMinutes}

\* groupby('date')['State Type'].shift(1) on the sorted table
PrevState(df, k) ==
    IF k > 1 /\ df[k - 1].date = df[k].date THEN df[k - 1].cat ELSE NaN

\* Variant: the validation looks at Maintenance only.
RECURSIVE PruneFrom_MaintenanceOnly(_, _)
PruneFrom_MaintenanceOnly(df, k) ==
    IF k > Len(df) THEN <<>>
    ELSE (IF df[k].cat = PrevState(df, k) /\ df[k].cat \in {"Maintenance"}
          THEN <<>> ELSE <<df[k]>>) \o PruneFrom_MaintenanceOnly(df, k + 1)

RECURSIVE PruneFrom(_, _)
PruneFrom(df, k) ==
    IF k > Len(df) THEN <<>>
    ELSE (IF df[k].cat = PrevState(df, k) /\ df[k].cat \in {"Maintenance", "System"}
          THEN <<>> ELSE <<df[k]>>) \o PruneFrom(df, k + 1)

CleanPostProcess(df) ==
    LET Valid(r) == r.date \in CleanValidDays(df)
        kept     == SelectSeq(df, Valid)
        srt      == SortRows(kept, "date,timestamp")
    IN  PruneFrom(srt, 1)

-----------------------------------------------------------------------------
(* The input space *)

\* Timestamp of the k-th event of a stream that starts at t with gaps gs.
RECURSIVE TimeAt(_, _, _)
TimeAt(t, gs, k) == IF k = 1 THEN t ELSE TimeAt(t, gs, k - 1) + gs[k - 1]

\* A stream as the loader hands it over: sorted by timestamp.
Stream(t, gs, cs) ==
    [k \in 1..Len(cs) |-> [timestamp |-> TimeAt(t, gs, k), code |-> cs[k]]]

ScenarioStream(cs) ==
    [k \in 1..3 |-> [timestamp |-> ScenarioTimes[k], code |-> cs[k]]]

\* The System States page before its call of process_sequence_data
StatesPageIdle ==
    [pc |-> "idle", sequences_df |-> <<>>, processed_df |-> <<>>, result |-> <<>>]

\* At least two events: the duration of a lone event is NaN.
IsInputStream(ev) ==
    \/ \E n \in 2..MaxEvents : \E t \in StartTimes :
          \E gs \in [1..(n - 1) -> Gaps] : \E cs \in [1..n -> Codes] :
             ev = Stream(t, gs, cs)
    \/ \E cs \in [1..3 -> Codes] : ev = ScenarioStream(cs)

InitFor(policies) ==
    /\ IsInputStream(sequences_df)
    /\ show_manufacturing \in BOOLEAN
    /\ time_handling \in policies
    /\ pc = "start"
    /\ analysis_df = <<>>
    /\ filtered_df = <<>>
    /\ pos = 0
    /\ split_states = <<>>
    /\ current_day_duration = 0
    /\ current_date = 0
    /\ prev_state_type = None
    /\ calls = 1
    /\ first_result = <<>>
    /\ states_page = StatesPageIdle

Init == InitFor(Policies)

\* Variant: the category filter runs first and the durations are measured
\* between the rows it kept.
Prepare_FilterFirst ==
    /\ pc = "start"
    /\ sequences_df' = CoerceCodes(sequences_df)
    /\ analysis_df' = MakeAnalysis(CoerceCodes(sequences_df))
    /\ filtered_df' =
          LET f == CategoryFilter(MakeAnalysis(CoerceCodes(sequences_df)),
                                  show_manufacturing)
          IN  IF Len(f) < 2 THEN f
              ELSE [k \in 1..Len(f) |-> [f[k] EXCEPT !.duration = Durations(f)[k]]]
    /\ pc' = "policy"
    /\ UNCHANGED <<calls, first_result, states_page>>
    /\ UNCHANGED <<show_manufacturing, time_handling, pos, split_states,
                   current_day_duration, current_date, prev_state_type>>

\* Lines 212-244; line 213 assigns the coerced column to the caller's table
Prepare ==
    /\ pc = "start"
    /\ sequences_df' = CoerceCodes(sequences_df)
    /\ analysis_df' = MakeAnalysis(CoerceCodes(sequences_df))
    /\ filtered_df' = CategoryFilter(MakeAnalysis(CoerceCodes(sequences_df)),
                                     show_manufacturing)
    /\ pc' = "policy"
    /\ UNCHANGED <<calls, first_result, states_page>>
    /\ UNCHANGED <<show_manufacturing, time_handling, pos, split_states,
                   current_day_duration, current_date, prev_state_type>>

\* Variant: Show All takes the Hide branch.
ShowAll_AsHide ==
    /\ pc = "policy"
    /\ time_handling = "Show All"
    /\ filtered_df' = HideDays(filtered_df)
    /\ pc' = "done"
    /\ UNCHANGED <<calls, first_result, states_page>>
    /\ UNCHANGED <<sequences_df, show_manufacturing, time_handling, analysis_df,
                   pos, split_states, current_day_duration, current_date,
                   prev_state_type>>

\* Line 247: Show All leaves the table alone
ShowAll ==
    /\ pc = "policy"
    /\ time_handling = "Show All"
    /\ pc' = "done"
    /\ UNCHANGED <<calls, first_result, states_page>>
    /\ UNCHANGED <<sequences_df, show_manufacturing, time_handling, analysis_df,
                   filtered_df, pos, split_states, current_day_duration,
                   current_date, prev_state_type>>

\* Lines 249-254
Hide ==
    /\ pc = "policy"
    /\ time_handling = "Hide"
    /\ filtered_df' = HideDays(filtered_df)
    /\ pc' = "done"
    /\ UNCHANGED <<calls, first_result, states_page>>
    /\ UNCHANGED <<sequences_df, show_manufacturing, time_handling, analysis_df,
                   pos, split_states, current_day_duration, current_date,
                   prev_state_type>>

\* Variant: the accumulator starts at the clock time of the first event.
SplitBegin_ClockStart ==
    /\ pc = "policy"
    /\ time_handling \in {"Clean Split", "Raw Split"}
    /\ filtered_df' = SortByTimestamp(filtered_df)
    /\ split_states' = <<>>
    /\ prev_state_type' = None
    /\ pos' = 0
    /\ IF filtered_df = <<>>
       THEN pc' = "error" /\ current_day_duration' = 0 /\ UNCHANGED current_date
       ELSE /\ pc' = "loop"
            /\ current_date' = SortByTimestamp(filtered_df)[1].date
            /\ current_day_duration' = SortByTimestamp(filtered_df)[1].timestamp % DayMinutes
    /\ UNCHANGED <<calls, first_result, states_page>>
    /\ UNCHANGED <<sequences_df, show_manufacturing, time_handling, analysis_df>>

\* Variant: the list of emitted rows outlives the call (it is not made anew
\* at line 259).
SplitBegin_SharedList ==
    /\ pc = "policy"
    /\ time_handling \in {"Clean Split", "Raw Split"}
    /\ filtered_df' = SortByTimestamp(filtered_df)
    /\ current_day_duration' = 0
    /\ prev_state_type' = None
    /\ pos' = 0
    /\ IF filtered_df = <<>>
       THEN pc' = "error" /\ UNCHANGED current_date
       ELSE pc' = "loop" /\ current_date' = SortByTimestamp(filtered_df)[1].date
    /\ UNCHANGED <<calls, first_result, states_page>>
    /\ UNCHANGED <<sequences_df, show_manufacturing, time_handling, analysis_df,
                   split_states>>

\* Lines 256-264; iloc[0] of an empty table raises IndexError
SplitBegin ==
    /\ pc = "policy"
    /\ time_handling \in {"Clean Split", "Raw Split"}
    /\ filtered_df' = SortByTimestamp(filtered_df)
    /\ split_states' = <<>>
    /\ current_day_duration' = 0
    /\ prev_state_type' = None
    /\ pos' = 0
    /\ IF filtered_df = <<>>
       THEN pc' = "error" /\ UNCHANGED current_date
       ELSE pc' = "loop" /\ current_date' = SortByTimestamp(filtered_df)[1].date
    /\ UNCHANGED <<calls, first_result, states_page>>
    /\ UNCHANGED <<sequences_df, show_manufacturing, time_handling, analysis_df>>

\* Lines 266-322: one iteration of the for loop
SplitRow ==
    /\ pc = "loop"
    /\ pos < Len(filtered_df)
    /\ LET row == filtered_df[pos + 1]
           b   == SplitBody(row, current_day_duration, current_date,
                            prev_state_type, time_handling)
           a   == DayCheck(b, row, time_handling)
       IN  /\ split_states' = split_states \o b.out
           /\ current_day_duration' = a.cdd
           /\ current_date' = a.date
           /\ prev_state_type' = a.prev
    /\ pos' = pos + 1
    /\ UNCHANGED <<calls, first_result, states_page>>
    /\ UNCHANGED <<sequences_df, show_manufacturing, time_handling, pc,
                   analysis_df, filtered_df>>

\* Lines 324-342: the loop is over
SplitEnd ==
    /\ pc = "loop"
    /\ pos = Len(filtered_df)
    /\ filtered_df' = IF time_handling = "Clean Split"
                      THEN CleanPostProcess(split_states)
                      ELSE split_states
    /\ pc' = "done"
    /\ UNCHANGED <<calls, first_result, states_page>>
    /\ UNCHANGED <<sequences_df, show_manufacturing, time_handling, analysis_df,
                   pos, split_states, current_day_duration, current_date,
                   prev_state_type>>

Next ==
    \/ Prepare
    \/ ShowAll
    \/ Hide
    \/ SplitBegin
    \/ SplitRow
    \/ SplitEnd

Spec == Init /\ [][Next]_vars

\* The page with the policy selector held at one value.
InitShowAll == InitFor({"Show All"})

NextShowAll == Prepare \/ ShowAll

SpecShowAll == InitShowAll /\ [][NextShowAll]_vars

InitHide == InitFor({"Hide"})

NextHide == Prepare \/ Hide

SpecHide == InitHide /\ [][NextHide]_vars

NextSplit == Prepare \/ SplitBegin \/ SplitRow \/ SplitEnd

InitRaw == InitFor({"Raw Split"})

SpecRaw == InitRaw /\ [][NextSplit]_vars

InitClean == InitFor({"Clean Split"})

SpecClean == InitClean /\ [][NextSplit]_vars

-----------------------------------------------------------------------------
(* Lines 478-482: the transition counts of the Sankey chart *)

\* shift(-1) pairs each row with the State Type of the row below; dropna()
\* removes the last row and every row where either State Type is NaN.
Transitions(df) ==
    LET pairs == [k \in 1..(Len(df) - 1) |-> <<df[k].cat, df[k + 1].cat>>]
        Known(pr) == pr[1] # NaN /\ pr[2] # NaN
    IN  SelectSeq(pairs, Known)

\* groupby(['State Type', 'next_state']).size()
TransitionCounts(df) ==
    LET tr == Transitions(df)
    IN  [pr \in {tr[k] : k \in 1..Len(tr)} |->
            Cardinality({k \in 1..Len(tr) : tr[k] = pr})]

RECURSIVE SumCounts(_, _)
SumCounts(counts, keys) ==
    IF keys = {} THEN 0
    ELSE LET pr == CHOOSE x \in keys : TRUE
         IN  counts[pr] + SumCounts(counts, keys \ {pr})

-----------------------------------------------------------------------------
(* calculate_state_transitions, src/utils/functions.py:122-134 *)

\* Lines 127-132: the frame is built from two Series, iloc[:-1] and
\* iloc[1:], which pandas aligns on their index labels: the row of a label
\* holds the category of that one event as from_category (NaN for the last
\* event) and as to_category (NaN for the first event).
AlignedTransitions(df) ==
    LET srt == SortByTimestamp(df)
    IN  [k \in 1..Len(srt) |->
            <<IF k < Len(srt) THEN srt[k].cat ELSE NaN,
              IF k > 1 THEN srt[k].cat ELSE NaN>>]

\* Line 134: groupby(['from_category', 'to_category']).size() leaves out
\* the rows with a NaN key
calculate_state_transitions(df) ==
    LET Known(pr) == pr[1] # NaN /\ pr[2] # NaN
        tr        == SelectSeq(AlignedTransitions(df), Known)
    IN  [pr \in {tr[k] : k \in 1..Len(tr)} |->
            Cardinality({k \in 1..Len(tr) : tr[k] = pr})]

-----------------------------------------------------------------------------
(* Percentages: lines 350-355 and 435-444, functions.py:71-99.  A quotient  *)
(* is a pair <<numerator, denominator>>; <<0, 0>> is the NaN of 0 / 0.      *)

TimeOf(df, cat) ==
    LET Is(r) == r.cat = cat IN SumDuration(SelectSeq(df, Is))

\* Variant: no test of the total; 0 / 0 is NaN.
Percent_Unguarded(part, total) == <<part * 100, total>>

\* part / total * 100 if total > 0 else 0
Percent(part, total) == IF total > 0 THEN <<part * 100, total>> ELSE <<0, 1>>

\* Lines 350-355
production_time(df) == TimeOf(df, "Production")

cleaning_time(df) == TimeOf(df, "Maintenance")

total_time(df) == production_time(df) + cleaning_time(df)

production_percent(df) == Percent(production_time(df), total_time(df))

cleaning_percent(df) == Percent(cleaning_time(df), total_time(df))

\* Lines 407, 436-444: groupby(['date', 'State Type']) leaves out the rows
\* without State Type; the share is divided without a test and the NaN of
\* 0 / 0 becomes 0 in pivot(...).fillna(0).
DailyStateDuration(df, d, cat) ==
    LET Is(r) == r.date = d /\ r.cat = cat IN SumDuration(SelectSeq(df, Is))

FillNa0(q) == IF q[2] = 0 THEN <<0, 1>> ELSE q

DailyPercentage(df, d, cat) ==
    FillNa0(<<DailyStateDuration(df, d, cat) * 100, CleanDailySum(df, d)>>)

\* functions.py:73-99 with days = 7: the last seven days before the newest
\* event and the seven days before those
PeriodMinutes == 7 * DayMinutes

NewestTimestamp(df) ==
    CHOOSE t \in {df[k].timestamp : k \in 1..Len(df)} :
        \A k \in 1..Len(df) : df[k].timestamp <= t

current_period(df) ==
    LET In(r) == r.timestamp >= NewestTimestamp(df) - PeriodMinutes
    IN  SelectSeq(df, In)

previous_period(df) ==
    LET In(r) == /\ r.timestamp >= NewestTimestamp(df) - 2 * PeriodMinutes
                 /\ r.timestamp < NewestTimestamp(df) - PeriodMinutes
    IN  SelectSeq(df, In)

Efficiency(period) == Percent(TimeOf(period, "Production"), SumDuration(period))

-----------------------------------------------------------------------------
(* The call boundary of create_efficiency_metrics (line 209): the function  *)
(* takes any table and any string.  The pages of the repository hand it the *)
(* loader's table, sorted by timestamp, and one of the four radio options.  *)

\* Codes of the tables at the call boundary: Production, Maintenance,
\* Manufacturing and a text cell.
CallCodes == {1, 2, 5, TextCode}

\* A string that is none of the four policies.
OtherToken == "Other"

Reordered(ev, p) == [k \in 1..Len(ev) |-> ev[p[k]]]

\* The rows of a stream in any order.
IsCallTable(ev) ==
    \E n \in 2..MaxEvents : \E t \in StartTimes :
       \E gs \in [1..(n - 1) -> Gaps] : \E cs \in [1..n -> CallCodes] :
          \E p \in Permutations(1..n) : ev = Reordered(Stream(t, gs, cs), p)

InitCall ==
    /\ IsCallTable(sequences_df)
    /\ show_manufacturing \in BOOLEAN
    /\ time_handling \in Policies \cup {OtherToken}
    /\ pc = "start"
    /\ analysis_df = <<>>
    /\ filtered_df = <<>>
    /\ pos = 0
    /\ split_states = <<>>
    /\ current_day_duration = 0
    /\ current_date = 0
    /\ prev_state_type = None
    /\ calls = 1
    /\ first_result = <<>>
    /\ states_page = StatesPageIdle

\* Lines 247-256: a string that is not "Show All" enters the if, is neither
\* "Hide" nor one of the splits, and leaves the table as it was.
UnknownPolicy ==
    /\ pc = "policy"
    /\ time_handling \notin Policies
    /\ pc' = "done"
    /\ UNCHANGED <<calls, first_result, states_page>>
    /\ UNCHANGED <<sequences_df, show_manufacturing, time_handling, analysis_df,
                   filtered_df, pos, split_states, current_day_duration,
                   current_date, prev_state_type>>

NextCall == Next \/ UnknownPolicy

SpecCall == InitCall /\ [][NextCall]_vars

-----------------------------------------------------------------------------
(* Lines 723-760: main calls create_efficiency_metrics twice on one table *)

\* A sorted stream whose code column may hold text.
IsLoadedTable(ev) ==
    \E n \in 2..MaxEvents : \E t \in StartTimes :
       \E gs \in [1..(n - 1) -> Gaps] : \E cs \in [1..n -> CallCodes] :
          ev = Stream(t, gs, cs)

InitTwice ==
    /\ IsLoadedTable(sequences_df)
    /\ show_manufacturing \in BOOLEAN
    /\ time_handling \in Policies
    /\ pc = "start"
    /\ analysis_df = <<>>
    /\ filtered_df = <<>>
    /\ pos = 0
    /\ split_states = <<>>
    /\ current_day_duration = 0
    /\ current_date = 0
    /\ prev_state_type = None
    /\ calls = 1
    /\ first_result = <<>>
    /\ states_page = StatesPageIdle

\* The first call has returned; the second is made with the same arguments
\* on the table the first one left behind.  The locals of the function are
\* assigned anew by the statements of the second call.
CallAgain ==
    /\ pc = "done"
    /\ calls = 1
    /\ calls' = 2
    /\ first_result' = filtered_df
    /\ pc' = "start"
    /\ UNCHANGED states_page
    /\ UNCHANGED <<sequences_df, show_manufacturing, time_handling, analysis_df,
                   filtered_df, pos, split_states, current_day_duration,
                   current_date, prev_state_type>>

NextTwice == Next \/ CallAgain

SpecTwice == InitTwice /\ [][NextTwice]_vars

-----------------------------------------------------------------------------
(* process_sequence_data, src/pages/6_⏱️_System_States.py:24-56 *)

\* Lines 34-48, by code.astype(str): two of the numeric codes and a text one
state_map ==
    [c \in {2002, 2021, TextCode} |->
        CASE c = 2002     -> "PRODUCTION"
          [] c = 2021     -> "WAIT"
          [] c = TextCode -> "START"]

\* Codes of the tables of this page; 2099 is not in state_map.
StateCodes == {2002, 2021, 2099, TextCode}

\* Line 50: state_map.get(x, x); a code without entry stays its own text
StateOf(code) == IF code \in DOMAIN state_map THEN state_map[code] ELSE "code"

\* Lines 30-31: to_datetime(errors='coerce') and dropna(subset=['timestamp'])
DropInvalidTimestamps(df) ==
    LET Valid(r) == r.timestamp # NA IN SelectSeq(df, Valid)

\* Line 54: timestamp.diff().shift(-1) in minutes; NaN in the last row and
\* wherever one of the two timestamps is NaT
NextDelta(df, k) ==
    IF k = Len(df) \/ df[k].timestamp = NA \/ df[k + 1].timestamp = NA THEN NA
    ELSE df[k + 1].timestamp - df[k].timestamp

\* The table as the loader hands it over: sorted, the rows whose timestamp
\* cell was empty (NaT) last.
StatesTable(t, gs, cs, m) ==
    [k \in 1..Len(cs) |->
        [timestamp |-> IF k <= m THEN TimeAt(t, gs, k) ELSE NA,
         code      |-> cs[k]]]

InitStates ==
    /\ sequences_df = <<>>
    /\ show_manufacturing = FALSE
    /\ time_handling = "Hide"
    /\ pc = "idle"
    /\ analysis_df = <<>>
    /\ filtered_df = <<>>
    /\ pos = 0
    /\ split_states = <<>>
    /\ current_day_duration = 0
    /\ current_date = 0
    /\ prev_state_type = None
    /\ calls = 0
    /\ first_result = <<>>
    /\ \E n \in 2..MaxEvents : \E t \in StartTimes :
          \E gs \in [1..(n - 1) -> Gaps] : \E cs \in [1..n -> StateCodes] :
             \E m \in 0..n :
                states_page = [pc           |-> "loaded",
                               sequences_df |-> StatesTable(t, gs, cs, m),
                               processed_df |-> <<>>,
                               result       |-> <<>>]

\* The whole call.  processed_df, the copy without the invalid timestamps,
\* is not used after line 31: lines 50-56 work on the table handed in.
ProcessSequenceData ==
    /\ states_page.pc = "loaded"
    /\ LET df       == states_page.sequences_df
           withState == [k \in 1..Len(df) |->
                            [timestamp |-> df[k].timestamp,
                             code      |-> df[k].code,
                             state     |-> StateOf(df[k].code)]]
           Mapped(r) == \E c \in DOMAIN state_map : r.state = state_map[c]
           kept      == SelectSeq(withState, Mapped)
       IN  states_page' =
              [pc           |-> "done",
               sequences_df |-> withState,
               processed_df |-> DropInvalidTimestamps(df),
               result       |-> [k \in 1..Len(kept) |->
                                    [timestamp |-> kept[k].timestamp,
                                     code      |-> kept[k].code,
                                     state     |-> kept[k].state,
                                     duration  |-> NextDelta(kept, k)]]]
    /\ UNCHANGED <<sequences_df, show_manufacturing, time_handling, pc,
                   analysis_df, filtered_df, pos, split_states,
                   current_day_duration, current_date, prev_state_type,
                   calls, first_result>>

NextStates == ProcessSequenceData

SpecStates == InitStates /\ [][NextStates]_vars

-----------------------------------------------------------------------------
(* Streams for the percentages: events may share a timestamp, so that a    *)
(* day can total 0 minutes.                                                *)

PercentGaps == {0, 120, 2000}

\* Production, Maintenance, System
PercentCodes == {1, 2, 4}

InitPercent ==
    /\ \E n \in 2..MaxEvents : \E t \in StartTimes :
          \E gs \in [1..(n - 1) -> PercentGaps] : \E cs \in [1..n -> PercentCodes] :
             sequences_df = Stream(t, gs, cs)
    /\ show_manufacturing \in BOOLEAN
    /\ time_handling \in Policies
    /\ pc = "start"
    /\ analysis_df = <<>>
    /\ filtered_df = <<>>
    /\ pos = 0
    /\ split_states = <<>>
    /\ current_day_duration = 0
    /\ current_date = 0
    /\ prev_state_type = None
    /\ calls = 1
    /\ first_result = <<>>
    /\ states_page = StatesPageIdle

SpecPercent == InitPercent /\ [][Next]_vars

\* The page with the policy selector at one of the two splits.
InitSplit == InitFor({"Clean Split", "Raw Split"})

SpecSplit == InitSplit /\ [][NextSplit]_vars

-----------------------------------------------------------------------------
(* The second page file, src/pages/1_📊Unit_Overview.py:144-290.  Its       *)
(* create_efficiency_metrics reads the toggle and the policy from the       *)
(* sidebar (lines 163-166, 186-192).  It is written here as functions of    *)
(* the events, the toggle and the policy.                                   *)

\* Lines 169-176
SidebarCategories ==
    [t \in {"Water Production", "Cleaning & Disinfection", "Testing",
            "System Management", "Manufacturing", "In-Field Self Test"} |->
        CASE t = "Water Production"        -> "Production"
          [] t = "Cleaning & Disinfection" -> "Maintenance"
          [] t = "Testing"                 -> "Testing"
          [] t = "System Management"       -> "System"
          [] t = "Manufacturing"           -> "Manufacturing"
          [] t = "In-Field Self Test"      -> "Testing"]

\* Lines 148-161, 179
SidebarAnalysis(ev) ==
    LET n      == Len(ev)
        delta  == [k \in 1..(n - 1) |-> Abs(ev[k].timestamp - ev[k + 1].timestamp)]
        Cat(c) == IF ToNumeric(c) \in DOMAIN sequence_states_df
                  THEN LET t == sequence_states_df[ToNumeric(c)]
                       IN  IF t \in DOMAIN SidebarCategories
                           THEN SidebarCategories[t] ELSE NaN
                  ELSE NaN
    IN  [k \in 1..n |->
            [idx       |-> k,
             timestamp |-> ev[k].timestamp,
             code      |-> ToNumeric(ev[k].code),
             cat       |-> Cat(ev[k].code),
             duration  |-> IF k < n THEN delta[k] ELSE Median(delta),
             date      |-> ev[k].timestamp \div 1440]]

\* Lines 182-184
SidebarFiltered(ev, show) ==
    LET Kept(r) == show \/ ~(r.cat \in {"Manufacturing", "Testing"})
    IN  SelectSeq(SidebarAnalysis(ev), Kept)

\* Lines 197-202
SidebarHide(df) ==
    LET Total(d) == LET On(r) == r.date = d IN SumDuration(SelectSeq(df, On))
        Valid(r) == Total(r.date) <= 1440
    IN  SelectSeq(df, Valid)

SidebarRepeats(prev, row) == prev = row.cat /\ prev \in {"Maintenance", "System"}

\* Lines 243-264: the while loop on acc = [cdd, date, prev, out]
RECURSIVE SidebarWhile(_, _, _, _)
SidebarWhile(rem, acc, row, policy) ==
    IF ~(rem > 0) THEN acc
    ELSE
      LET date == acc.date + 1
          nd   == IF policy = "Clean Split" /\ row.cat \in {"Maintenance", "System"}
                  THEN Min(Min(1440, rem), 480)
                  ELSE Min(1440, rem)
          add  == IF policy = "Clean Split" THEN ~SidebarRepeats(acc.prev, row) ELSE TRUE
      IN  SidebarWhile(rem - nd,
                       [cdd  |-> nd,
                        date |-> date,
                        prev |-> IF policy = "Clean Split" /\ add THEN row.cat ELSE acc.prev,
                        out  |-> IF add
                                 THEN acc.out \o <<[row EXCEPT !.date = date, !.duration = nd]>>
                                 ELSE acc.out],
                       row, policy)

\* Lines 214-270: one pass of the for loop
SidebarRow(acc, row, policy) ==
    LET remaining_time == 1440 - acc.cdd
        NewDay(a) == IF row.date # a.date
                     THEN [a EXCEPT !.date = row.date,
                                    !.cdd  = IF policy = "Raw Split" THEN row.duration
                                             ELSE Min(row.duration, 480),
                                    !.prev = None]
                     ELSE a
    IN  IF acc.cdd + row.duration <= 1440
        THEN IF policy = "Clean Split" /\ SidebarRepeats(acc.prev, row)
             THEN acc
             ELSE NewDay([acc EXCEPT !.out  = Append(@, row),
                                     !.cdd  = @ + row.duration,
                                     !.prev = row.cat])
        ELSE LET first == remaining_time > 0
                          /\ (policy = "Clean Split" => ~SidebarRepeats(acc.prev, row))
                 acc1  == IF first
                          THEN [acc EXCEPT
                                  !.out  = Append(@, [row EXCEPT !.duration = remaining_time]),
                                  !.prev = IF policy = "Clean Split" THEN row.cat ELSE @]
                          ELSE acc
             IN  NewDay(SidebarWhile(row.duration - remaining_time, acc1, row, policy))

\* Lines 204-212 and the first n passes of the loop
RECURSIVE SidebarLoop(_, _, _)
SidebarLoop(df, n, policy) ==
    IF n = 0
    THEN [cdd |-> 0, date |-> df[1].date, prev |-> None, out |-> <<>>]
    ELSE SidebarRow(SidebarLoop(df, n - 1, policy), df[n], policy)

\* Lines 275-290
SidebarClean(out) ==
    LET Sum(d)     == LET In(r) == r.date = d /\ r.cat # NaN
                      IN  SumDuration(SelectSeq(out, In))
        Counted(d) == \E k \in 1..Len(out) : out[k].date = d /\ out[k].cat # NaN
        Valid(r)   == Counted(r.date) /\ Sum(r.date) <= 1440
        srt        == SortRows(SelectSeq(out, Valid), "date,timestamp")
        Bad(k)     == /\ k > 1
                      /\ srt[k - 1].date = srt[k].date
                      /\ srt[k].cat = srt[k - 1].cat
                      /\ srt[k].cat \in {"Maintenance", "System"}
        keep       == {k \in 1..Len(srt) : ~Bad(k)}
        Nth(j)     == CHOOSE k \in keep : Cardinality({i \in keep : i < k}) = j - 1
    IN  [j \in 1..Cardinality(keep) |-> srt[Nth(j)]]

\* The table the second page works with from line 272 on; "error" when
\* iloc[0] at line 211 finds no row.
SidebarSorted(ev, show) == SortRows(SidebarFiltered(ev, show), "timestamp")

SidebarResult(ev, show, policy) ==
    LET flt == SidebarFiltered(ev, show)
        srt == SidebarSorted(ev, show)
    IN  CASE policy = "Hide" -> SidebarHide(flt)
          [] policy \in {"Clean Split", "Raw Split"} ->
                IF flt = <<>> THEN "error"
                ELSE LET out == SidebarLoop(srt, Len(srt), policy).out
                     IN  IF policy = "Clean Split" THEN SidebarClean(out) ELSE out
          [] OTHER -> flt

\* Both page files on the same tables.
SpecPages == InitTwice /\ [][Next]_vars

-----------------------------------------------------------------------------
(* Vocabulary of the properties *)

Done == pc = "done"

\* The category-filtered table the policy starts from.
PrePolicy == CategoryFilter(analysis_df, show_manufacturing)

\* The rows of a table that come from the event with index label i.
PartsOf(df, i) == LET FromEvent(r) == r.idx = i IN SelectSeq(df, FromEvent)

DateDuration(df) == [k \in 1..Len(df) |-> <<df[k].date, df[k].duration>>]

IsRow(df, r) == \E k \in 1..Len(df) : df[k] = r

-----------------------------------------------------------------------------
\* C1: under Raw Split the durations of the output rows of every event sum
\* to the event's pre-split duration, whatever preceded it.
C1_RawSplitConservesDuration ==
    (Done /\ time_handling = "Raw Split") =>
        \A k \in 1..Len(PrePolicy) :
            SumDuration(PartsOf(filtered_df, PrePolicy[k].idx)) = PrePolicy[k].duration

\* C2 as claimed: in the scenario 23:00 (Production), 02:00 (Production),
\* 04:00 (Maintenance) Raw Split cuts the first event at midnight into
\* 60 minutes on day 0 and 120 minutes on day 1.
C2_ScenarioSplitsAtMidnight ==
    (Done /\ time_handling = "Raw Split"
          /\ sequences_df = ScenarioStream(<<1, 1, 2>>)) =>
        DateDuration(PartsOf(filtered_df, 1)) = <<<<0, 60>>, <<1, 120>>>>

\* C2 as amended: Raw Split splits on the accumulated total, not on the
\* clock; the first event of the scenario meets a total of 0, fits, and
\* stays one row of 180 minutes on day 0.
C2_ScenarioFirstEventUnsplit ==
    (Done /\ time_handling = "Raw Split"
          /\ sequences_df = ScenarioStream(<<1, 1, 2>>)) =>
        DateDuration(PartsOf(filtered_df, 1)) = <<<<0, 180>>>>

C2_Witness ==
    /\ Done
    /\ time_handling = "Raw Split"
    /\ sequences_df = ScenarioStream(<<1, 1, 2>>)
    /\ Len(filtered_df) = 3

\* C3: under Hide every date of the output totals at most 1440 minutes and
\* every date the policy removed totalled more than 1440 before it.
C3_HideDayTotals ==
    (Done /\ time_handling = "Hide") =>
        /\ \A d \in DatesOf(filtered_df) : DailyTotal(filtered_df, d) <= 1440
        /\ \A d \in DatesOf(PrePolicy) \ DatesOf(filtered_df) :
               DailyTotal(PrePolicy, d) > 1440

C3_Witness ==
    /\ Done
    /\ time_handling = "Hide"
    /\ DatesOf(filtered_df) # {}
    /\ DatesOf(PrePolicy) \ DatesOf(filtered_df) # {}

\* C4: Hide removes days whole: every output row is a pre-policy row as it
\* was, and a retained date keeps all of its pre-policy rows.
C4_HideKeepsWholeDays ==
    (Done /\ time_handling = "Hide") =>
        /\ \A k \in 1..Len(filtered_df) : IsRow(PrePolicy, filtered_df[k])
        /\ \A d \in DatesOf(filtered_df) :
               RowsOfDate(filtered_df, d) = RowsOfDate(PrePolicy, d)

C4_Witness ==
    /\ Done
    /\ time_handling = "Hide"
    /\ filtered_df # <<>>
    /\ \E d \in DatesOf(PrePolicy) :
          /\ d \notin DatesOf(filtered_df)
          /\ Len(RowsOfDate(PrePolicy, d)) >= 2
          /\ RowsOfDate(PrePolicy, d)[1].duration <= 1440

\* C5: in the final output of Clean Split no date totals more than 1440
\* minutes over all of its rows.
C5_CleanDayTotals ==
    (Done /\ time_handling = "Clean Split") =>
        \A d \in DatesOf(filtered_df) : DailyTotal(filtered_df, d) <= 1440

\* C6: in the final output of Clean Split, ordered by (date, timestamp), no
\* two adjacent rows of one date share a category that is Maintenance or
\* System.
C6_CleanNoAdjacentDuplicates ==
    (Done /\ time_handling = "Clean Split") =>
        LET out == SortRows(filtered_df, "date,timestamp")
        IN  \A k \in 1..(Len(out) - 1) :
               (out[k].date = out[k + 1].date /\ out[k].cat = out[k + 1].cat)
                   => out[k].cat \notin {"Maintenance", "System"}

\* The loop left such a pair on a day that was kept, and a Maintenance or
\* System row is in the result.
C6_Witness ==
    /\ Done
    /\ time_handling = "Clean Split"
    /\ \E k \in 1..Len(split_states) :
          /\ split_states[k].date \in CleanValidDays(split_states)
          /\ split_states[k].cat \in {"Maintenance", "System"}
          /\ ~IsRow(filtered_df, split_states[k])
    /\ \E k \in 1..Len(filtered_df) : filtered_df[k].cat \in {"Maintenance", "System"}

\* C7: under Clean Split every portion emitted for a Maintenance or System
\* event that was split (the current-day portion and the next-day ones) is
\* at most 480 minutes long.
C7_CleanPortionsCapped ==
    (pc \in {"loop", "done"} /\ time_handling = "Clean Split") =>
        \A k \in 1..Len(split_states) :
            LET r == split_states[k]
            IN  (r.cat \in {"Maintenance", "System"} /\ r # analysis_df[r.idx])
                    => r.duration <= 480

\* Consecutive retained events k-1, k of one Maintenance or System category
SameRun(df, k) ==
    /\ df[k].cat = df[k - 1].cat
    /\ df[k].cat \in {"Maintenance", "System"}

\* C8 as claimed: under Clean Split only the first event of a run of
\* consecutive Maintenance (or System) events yields output rows, also when
\* the run straddles a date change or an overflow split.
C8_CleanRunYieldsOnlyFirst ==
    (Done /\ time_handling = "Clean Split") =>
        \A k \in 2..Len(PrePolicy) :
            SameRun(PrePolicy, k) => PartsOf(filtered_df, PrePolicy[k].idx) = <<>>

\* C8 as amended: the later event yields no output rows when it has the
\* date of its predecessor in the run; the loop forgets the last category
\* at a day boundary, so a later event of another date can come out.
C8_CleanRunSameDateYieldsOnlyFirst ==
    (Done /\ time_handling = "Clean Split") =>
        \A k \in 2..Len(PrePolicy) :
            (SameRun(PrePolicy, k) /\ PrePolicy[k].date = PrePolicy[k - 1].date)
                => PartsOf(filtered_df, PrePolicy[k].idx) = <<>>

\* A run of two on one date, the first of which is in the result.
C8_Witness ==
    /\ Done
    /\ time_handling = "Clean Split"
    /\ \E k \in 2..Len(PrePolicy) :
          /\ SameRun(PrePolicy, k)
          /\ PrePolicy[k].date = PrePolicy[k - 1].date
          /\ PartsOf(filtered_df, PrePolicy[k - 1].idx) # <<>>

\* C9: under Show All the output is the retained events, one row each with
\* the raw duration, so the durations sum to the raw total, also when a
\* date totals more than 1440 minutes.
C9_ShowAllKeepsRawDurations ==
    (Done /\ time_handling = "Show All") =>
        LET Retained(r) == show_manufacturing \/ r.cat \notin {"Manufacturing", "Testing"}
            retained    == SelectSeq(analysis_df, Retained)
        IN  /\ Len(filtered_df) = Len(retained)
            /\ \A k \in 1..Len(filtered_df) :
                   /\ filtered_df[k].idx = retained[k].idx
                   /\ filtered_df[k].duration = retained[k].duration
            /\ SumDuration(filtered_df) = SumDuration(retained)

C9_Witness ==
    /\ Done
    /\ time_handling = "Show All"
    /\ \E d \in DatesOf(filtered_df) : DailyTotal(filtered_df, d) > 1440

\* C10: under every policy each row of the output has one of the five
\* categories; an event with an unmapped code or State Type is not in it.
C10_CategoryClosure ==
    Done => \A k \in 1..Len(filtered_df) : filtered_df[k].cat \in Categories

\* C11 as claimed: with Manufacturing and Testing excluded, the duration of
\* each retained event but the last retained one is the time to the next
\* retained event.
C11_DurationToNextRetained ==
    (pc = "policy" /\ ~show_manufacturing) =>
        \A k \in 1..(Len(filtered_df) - 1) :
            filtered_df[k].duration =
                filtered_df[k + 1].timestamp - filtered_df[k].timestamp

\* C11 as amended: the durations are computed before the category filter,
\* so the duration of a retained event that is not the last of the whole
\* stream is the time to the next event of the unfiltered stream, removed
\* or not.
C11_DurationToNextOfStream ==
    (pc = "policy" /\ ~show_manufacturing) =>
        \A k \in 1..Len(filtered_df) :
            LET i == filtered_df[k].idx
            IN  i < Len(sequences_df) =>
                    filtered_df[k].duration =
                        sequences_df[i + 1].timestamp - sequences_df[i].timestamp

\* A removed event lies between two retained ones.
C11_Witness ==
    /\ pc = "policy"
    /\ ~show_manufacturing
    /\ \E k \in 1..(Len(filtered_df) - 1) :
          filtered_df[k + 1].idx > filtered_df[k].idx + 1

\* The j-th smallest value of a sequence of numbers, by counting.
KthSmallest(d, j) ==
    CHOOSE x \in {d[i] : i \in DOMAIN d} :
        /\ Cardinality({i \in DOMAIN d : d[i] < x}) < j
        /\ j <= Cardinality({i \in DOMAIN d : d[i] <= x})

\* C13: for a stream of n >= 2 events the duration of the last event is
\* the median of the n-1 deltas between consecutive events (the mean of the
\* two middle deltas when n-1 is even), and every other event keeps its own
\* delta.
C13_LastDurationIsMedian ==
    (pc # "start") =>
        LET n  == Len(sequences_df)
            d  == [k \in 1..(n - 1) |->
                      sequences_df[k + 1].timestamp - sequences_df[k].timestamp]
            lo == KthSmallest(d, n \div 2)
            hi == KthSmallest(d, (n - 1) \div 2 + 1)
        IN  /\ 2 * analysis_df[n].duration = lo + hi
            /\ \A k \in 1..(n - 1) : analysis_df[k].duration = d[k]

\* Three events with two different deltas: the median is neither of them.
C13_Witness ==
    /\ Done
    /\ Len(analysis_df) = 3
    /\ analysis_df[1].duration # analysis_df[2].duration
    /\ analysis_df[3].duration \notin {analysis_df[1].duration, analysis_df[2].duration}

\* C14: under every policy, when the category filter leaves no event the
\* call raises no error and its result is the empty table.
C14_EmptyAfterFilterIsEmptyResult ==
    (pc # "start" /\ PrePolicy = <<>>) =>
        /\ pc # "error"
        /\ Done => filtered_df = <<>>

\* C12: for any row order of the events handed in, every event except the
\* chronologically last has as duration the time from its own timestamp to
\* the timestamp of the chronologically next event.
C12_DurationToChronologicalNext ==
    (pc # "start") =>
        \A k \in 1..Len(analysis_df) :
            LET later == {analysis_df[j].timestamp : j \in 1..Len(analysis_df)}
                             \cap {t \in Int : t > analysis_df[k].timestamp}
            IN  later # {} =>
                    \E t \in later :
                        /\ \A u \in later : t <= u
                        /\ analysis_df[k].duration = t - analysis_df[k].timestamp

\* C15: a policy token other than the four policies never ends in a
\* result; the call is rejected.
C15_UnknownPolicyRejected ==
    (time_handling \notin Policies) => pc # "done"

\* C16: no step of a call changes the caller's events table.
C16_EventsTableUnchanged ==
    [][sequences_df' = sequences_df]_vars

\* C17: a second call with the same policy and toggle, made on the tables
\* the first call left behind, returns the same table as the first, under
\* every policy.
C17_SecondRunSameOutput ==
    (calls = 2 /\ Done) => filtered_df = first_result

\* The first call changed the code column of the caller's table, and the
\* second call went through the split loop.
C17_Witness ==
    /\ calls = 2
    /\ Done
    /\ time_handling = "Clean Split"
    /\ \E k \in 1..Len(sequences_df) : sequences_df[k].code = NA
    /\ Len(filtered_df) >= 2

\* C18: the transition counts over the result count every adjacent pair of
\* rows once, self-transitions included: the count of (a, b) is the number
\* of positions where a row of category a is followed by one of category b,
\* and the counts sum to the number of rows less one.
C18_TransitionCountsCoverAllPairs ==
    (Done /\ Len(filtered_df) >= 1) =>
        LET counts == TransitionCounts(filtered_df)
        IN  /\ SumCounts(counts, DOMAIN counts) = Len(filtered_df) - 1
            /\ \A k \in 1..(Len(filtered_df) - 1) :
                   LET pr == <<filtered_df[k].cat, filtered_df[k + 1].cat>>
                   IN  /\ pr \in DOMAIN counts
                       /\ counts[pr] =
                              Cardinality({j \in 1..(Len(filtered_df) - 1) :
                                  <<filtered_df[j].cat, filtered_df[j + 1].cat>> = pr})

\* C19: no event whose timestamp could not be parsed is in the processed
\* sequence table that process_sequence_data returns, and none contributes
\* a duration.
C19_InvalidTimestampsDropped ==
    (states_page.pc = "done") =>
        \A k \in 1..Len(states_page.result) :
            states_page.result[k].timestamp # NA

IsZero(q) == q[1] = 0 /\ q[2] # 0

\* C20: every percentage is 0 when its denominator total is 0: the
\* production and cleaning percent when production_time + cleaning_time is
\* 0, the efficiency of a period whose durations total 0, and the daily
\* share of a category on a date that totals 0; when the total is positive
\* the production and cleaning percent add up to 100.
C20_PercentagesGuardZeroTotal ==
    Done =>
        /\ total_time(filtered_df) = 0 =>
               /\ IsZero(production_percent(filtered_df))
               /\ IsZero(cleaning_percent(filtered_df))
        /\ total_time(filtered_df) > 0 =>
               /\ production_percent(filtered_df)[2] = total_time(filtered_df)
               /\ cleaning_percent(filtered_df)[2] = total_time(filtered_df)
               /\ production_percent(filtered_df)[1] + cleaning_percent(filtered_df)[1]
                      = 100 * total_time(filtered_df)
        /\ \A period \in {current_period(analysis_df), previous_period(analysis_df)} :
               SumDuration(period) = 0 => IsZero(Efficiency(period))
        /\ \A d \in DatesOf(filtered_df) : \A cat \in Categories :
               CleanDailySum(filtered_df, d) = 0 =>
                   IsZero(DailyPercentage(filtered_df, d, cat))

\* A result with rows in which neither Production nor Maintenance has any
\* time and some date totals 0 minutes, and a current period of 0 minutes.
C20_Witness ==
    /\ Done
    /\ filtered_df # <<>>
    /\ total_time(filtered_df) = 0
    /\ \E d \in DatesOf(filtered_df) : CleanDailySum(filtered_df, d) = 0
    /\ SumDuration(current_period(analysis_df)) = 0

\* C21: under Raw Split the portions of an event are dated from the event's
\* own date: the current-day portion has the event's date and the k-th
\* next-day portion the event's date plus k days (an event without a
\* current-day portion starts at its date plus one); no portion is dated
\* earlier than the event.
C21_RawPortionsDatedFromEvent ==
    (Done /\ time_handling = "Raw Split") =>
        \A k \in 1..Len(PrePolicy) :
            LET e     == PrePolicy[k]
                parts == PartsOf(filtered_df, e.idx)
            IN  /\ \A j \in 1..Len(parts) : parts[j].date >= e.date
                /\ \/ \A j \in 1..Len(parts) : parts[j].date = e.date + j - 1
                   \/ \A j \in 1..Len(parts) : parts[j].date = e.date + j

\* C22: under Raw Split an event that is the first of its date is tested
\* against an accumulator that was reset for that date: what the previous
\* date accumulated never splits it, so such an event of at most 1440
\* minutes stays one row.
C22_FirstOfDateNotSplitByPreviousDay ==
    (Done /\ time_handling = "Raw Split") =>
        \A k \in 2..Len(PrePolicy) :
            (PrePolicy[k].date # PrePolicy[k - 1].date /\ PrePolicy[k].duration <= 1440)
                => Len(PartsOf(filtered_df, PrePolicy[k].idx)) = 1

\* C23: under Raw Split the accumulator current_day_duration is within
\* 0..1440 whenever the loop starts on an event.
C23_AccumulatorWithinDay ==
    (pc = "loop" /\ pos < Len(filtered_df) /\ time_handling = "Raw Split") =>
        (current_day_duration >= 0 /\ current_day_duration <= 1440)

\* C24: under Raw Split no date of the output totals more than 1440
\* minutes.
C24_RawDayTotals ==
    (Done /\ time_handling = "Raw Split") =>
        \A d \in DatesOf(filtered_df) : DailyTotal(filtered_df, d) <= 1440

\* C25: under Raw Split and Clean Split every row the loop emits, and so
\* every row of the result, has a duration from 0 to 1440 minutes, whatever
\* came before it.
C25_SplitRowsWithinDay ==
    (pc \in {"loop", "done"} /\ time_handling \in {"Clean Split", "Raw Split"}) =>
        /\ \A k \in 1..Len(split_states) :
               split_states[k].duration >= 0 /\ split_states[k].duration <= 1440
        /\ Done => \A k \in 1..Len(filtered_df) :
               filtered_df[k].duration >= 0 /\ filtered_df[k].duration <= 1440

\* An event longer than a day came in and a full-day row of 1440 minutes
\* is in the result, next to other rows.
C25_Witness ==
    /\ Done
    /\ \E k \in 1..Len(PrePolicy) : PrePolicy[k].duration > 1440
    /\ \E k \in 1..Len(filtered_df) : filtered_df[k].duration = 1440
    /\ Len(filtered_df) >= 3

\* C26: under Clean Split a Maintenance or System event does not span
\* days: the loop emits at most one row for it, so it is in the result with
\* at most one row and one date.
C26_CleanMaintenanceOneRow ==
    (pc \in {"loop", "done"} /\ time_handling = "Clean Split") =>
        \A k \in 1..Len(PrePolicy) :
            PrePolicy[k].cat \in {"Maintenance", "System"} =>
                /\ Len(PartsOf(split_states, PrePolicy[k].idx)) <= 1
                /\ Done => Len(PartsOf(filtered_df, PrePolicy[k].idx)) <= 1

\* A Maintenance or System event longer than a day, which the loop had to
\* carry over, is in the result with one row.
C26_Witness ==
    /\ Done
    /\ time_handling = "Clean Split"
    /\ \E k \in 1..Len(PrePolicy) :
          /\ PrePolicy[k].cat \in {"Maintenance", "System"}
          /\ PrePolicy[k].duration > 1440
          /\ Len(PartsOf(filtered_df, PrePolicy[k].idx)) = 1

Ceil(a, b) == (a + b - 1) \div b

\* What the loop is about to do with the row it stands on.
UpcomingBody ==
    SplitBody(filtered_df[pos + 1], current_day_duration, current_date,
              prev_state_type, time_handling)

\* C27: the split loop is bounded under both split policies: it consumes
\* the rows one by one, and for a row that overflows the while loop passes
\* at most ceil(remainder / 1440) times, at most ceil(remainder / 480) times
\* for a Maintenance or System row under Clean Split, where remainder is
\* remaining_duration at line 294.
C27_SplitLoopBounded ==
    (pc = "loop" /\ time_handling \in {"Clean Split", "Raw Split"}) =>
        /\ pos <= Len(filtered_df)
        /\ pos < Len(filtered_df) =>
               LET row  == filtered_df[pos + 1]
                   rem  == row.duration - (1440 - current_day_duration)
                   step == IF time_handling = "Clean Split"
                              /\ row.cat \in {"Maintenance", "System"}
                           THEN 480 ELSE 1440
               IN  IF current_day_duration + row.duration <= 1440
                   THEN UpcomingBody.iters = 0
                   ELSE UpcomingBody.iters <= Ceil(rem, step)

\* The loop stands on a row for which the while loop passes more than once.
C27_Witness ==
    /\ pc = "loop"
    /\ pos < Len(filtered_df)
    /\ UpcomingBody.iters >= 2

\* C28: calculate_state_transitions counts, for n events sorted by
\* timestamp, every pair (category of event i, category of event i+1): the
\* counts sum to n-1, and a pair (A, B) with A # B has a positive count
\* whenever an event of category A is immediately followed by one of B.
C28_TransitionsOfConsecutiveEvents ==
    (pc # "start") =>
        LET counts == calculate_state_transitions(analysis_df)
            n      == Len(analysis_df)
        IN  /\ SumCounts(counts, DOMAIN counts) = n - 1
            /\ \A k \in 1..(n - 1) :
                   LET pr == <<analysis_df[k].cat, analysis_df[k + 1].cat>>
                   IN  pr[1] # pr[2] => (pr \in DOMAIN counts /\ counts[pr] > 0)

\* C29: the two page files segment alike.  For the same events, toggle and
\* policy the second file has, after every pass of the split loop, the
\* accumulator, date, last State Type and emitted rows the first file has,
\* fails where the first fails, and ends with the same table.
C29_PagesEquivalent ==
    /\ (pc \notin {"start", "done", "error"}) =>
           analysis_df = SidebarAnalysis(sequences_df)
    /\ (pc = "loop") =>
           LET acc == SidebarLoop(SidebarSorted(sequences_df, show_manufacturing),
                                  pos, time_handling)
           IN  /\ filtered_df = SidebarSorted(sequences_df, show_manufacturing)
               /\ current_day_duration = acc.cdd
               /\ current_date = acc.date
               /\ prev_state_type = acc.prev
               /\ split_states = acc.out
    /\ (pc = "error") =>
           SidebarResult(sequences_df, show_manufacturing, time_handling) = "error"
    /\ Done =>
           /\ SidebarFiltered(sequences_df, show_manufacturing) # <<>>
                  \/ time_handling \in {"Hide", "Show All"}
           /\ filtered_df = SidebarResult(sequences_df, show_manufacturing, time_handling)

\* Clean Split ended after the loop suppressed a row and split another.
C29_Witness ==
    /\ Done
    /\ time_handling = "Clean Split"
    /\ Len(split_states) > Len(PrePolicy)
    /\ Len(filtered_df) < Len(split_states)
    /\ filtered_df # <<>>

====
